---- MODULE Spec2Model ----
(***************************************************************************)
(* Model of the Nexus IPAM application: the address arithmetic of          *)
(* services/ipUtils.ts, the display comparator of components/IPGrid.tsx,   *)
(* and the subnet manager / storage facade state machine.                  *)
(*                                                                         *)
(* JavaScript values are represented as follows.                           *)
(*  - A string is a sequence of one-character strings.                     *)
(*  - A number n (always an integer of magnitude below 2^47 here, so the   *)
(*    double arithmetic of the source is exact) is the pair <<h, l>> with  *)
(*    n = h * 2^16 + l and 0 <= l < 2^16.                                  *)
(*  - NaN and undefined are distinguished values of the same shapes.       *)
(***************************************************************************)
EXTENDS Integers, Sequences, FiniteSets, TLC

(***************************************************************************)
(* JavaScript numbers                                                      *)
(***************************************************************************)
B16 == 65536
H16 == 32768

NaN == <<0, -1>>
IsNaN(x) == x = NaN

Norm(h, l) == <<h + (l \div B16), l % B16>>
Num(n) == Norm(0, n)
NumAdd(x, y) == IF IsNaN(x) \/ IsNaN(y) THEN NaN ELSE Norm(x[1] + y[1], x[2] + y[2])
NumSub(x, y) == IF IsNaN(x) \/ IsNaN(y) THEN NaN ELSE Norm(x[1] - y[1], x[2] - y[2])
NumLess(x, y) ==
    /\ ~IsNaN(x)
    /\ ~IsNaN(y)
    /\ \/ x[1] < y[1]
       \/ x[1] = y[1] /\ x[2] < y[2]
NumSign(x) == IF IsNaN(x) THEN 0 ELSE IF x[1] < 0 THEN -1 ELSE IF x = <<0, 0>> THEN 0 ELSE 1

\* ToInt32 / ToUint32 of ECMAScript: NaN maps to 0, other values wrap modulo 2^32
ToInt32(x) == IF IsNaN(x) THEN <<0, 0>> ELSE <<((x[1] + H16) % B16) - H16, x[2]>>
ToUint32(x) == IF IsNaN(x) THEN <<0, 0>> ELSE <<x[1] % B16, x[2]>>

Pow2(k) == <<1, 2, 4, 8, 16, 32, 64, 128, 256, 512, 1024, 2048, 4096, 8192, 16384, 32768, 65536>>[k + 1]

\* x << k: the shift count is taken modulo 32, the result is a signed 32-bit integer
Shl(x, k) ==
    LET u == ToUint32(x)
        c == k % 32
        v == IF c >= 16 THEN <<u[2], 0>> ELSE u
        p == Pow2(c % 16)
    IN  ToInt32(<<((v[1] * p) + ((v[2] * p) \div B16)) % B16, (v[2] * p) % B16>>)

\* x >>> k: the shift count is taken modulo 32, the result is an unsigned 32-bit integer
UShr(x, k) ==
    LET u == ToUint32(x)
        c == k % 32
        v == IF c >= 16 THEN <<0, u[1]>> ELSE u
        p == Pow2(c % 16)
    IN  <<v[1] \div p, ((v[1] % p) * (B16 \div p)) + (v[2] \div p)>>

RECURSIVE AndBits(_, _, _)
\* bitwise and of two naturals below 2^bits: x & 0 = 0, x & 1..1 = x, and
\* otherwise the and of the upper halves and the and of the lower halves
AndBits(a, b, bits) ==
    IF a = 0 \/ b = 0 THEN 0
    ELSE IF b = Pow2(bits) - 1 THEN a
    ELSE IF a = Pow2(bits) - 1 THEN b
    ELSE LET h == bits \div 2
             p == Pow2(h)
         IN  (AndBits(a \div p, b \div p, bits - h) * p) + AndBits(a % p, b % p, h)

\* x & y, the result is a signed 32-bit integer
BitAnd(x, y) ==
    LET u == ToUint32(x)
        v == ToUint32(y)
    IN  ToInt32(<<AndBits(u[1], v[1], 16), AndBits(u[2], v[2], 16)>>)

\* ~x, the result is a signed 32-bit integer
BitNot(x) ==
    LET u == ToUint32(x)
    IN  ToInt32(<<(B16 - 1) - u[1], (B16 - 1) - u[2]>>)

(***************************************************************************)
(* JavaScript strings                                                      *)
(***************************************************************************)
Digits == <<"0", "1", "2", "3", "4", "5", "6", "7", "8", "9">>
IsDigit(c) == \E i \in 1..10 : Digits[i] = c
DigitVal(c) == (CHOOSE i \in 1..10 : Digits[i] = c) - 1

Undefined == <<"undefined">>

RECURSIVE NumToString(_)
\* String(n) for a non-negative integer n below 2^16 (here: an octet or an index)
NumToString(n) ==
    IF n < 10 THEN <<Digits[n + 1]>>
    ELSE NumToString(n \div 10) \o <<Digits[(n % 10) + 1]>>

\* s.split(sep) for a one-character separator: the segments between
\* consecutive occurrences of sep (n occurrences give n + 1 segments)
Split(s, sep) ==
    LET cuts == {i \in 1..Len(s) : s[i] = sep} \cup {0, Len(s) + 1}
        cut(j) == CHOOSE p \in cuts : Cardinality({q \in cuts : q < p}) = j
    IN  [k \in 1..(Cardinality(cuts) - 1) |-> SubSeq(s, cut(k - 1) + 1, cut(k) - 1)]

RECURSIVE JoinFrom(_, _, _)
JoinFrom(parts, sep, i) ==
    IF i > Len(parts) THEN <<>>
    ELSE IF i = Len(parts) THEN parts[i]
    ELSE parts[i] \o <<sep>> \o JoinFrom(parts, sep, i + 1)

\* parts.join(sep)
Join(parts, sep) == JoinFrom(parts, sep, 1)

RECURSIVE ParseDigits(_, _, _)
ParseDigits(s, i, acc) ==
    IF i > Len(s) \/ ~IsDigit(s[i]) THEN acc
    ELSE ParseDigits(s, i + 1, NumAdd(Norm(acc[1] * 10, acc[2] * 10), Num(DigitVal(s[i]))))

\* parseInt(s, 10): an optional sign and the longest prefix of decimal digits;
\* NaN when there is no digit (in particular for undefined).  Inputs have few
\* digits, so the value is exact.
ParseInt(s) ==
    LET neg == Len(s) >= 1 /\ s[1] = "-"
        start == IF Len(s) >= 1 /\ (s[1] = "-" \/ s[1] = "+") THEN 2 ELSE 1
    IN  IF s = Undefined \/ start > Len(s) \/ ~IsDigit(s[start]) THEN NaN
        ELSE IF neg THEN NumSub(Num(0), ParseDigits(s, start, Num(0)))
        ELSE ParseDigits(s, start, Num(0))

(***************************************************************************)
(* services/ipUtils.ts                                                     *)
(***************************************************************************)
RECURSIVE ReduceOctets(_, _, _)
\* segments.reduce((acc, octet) => (acc << 8) + parseInt(octet, 10), acc0)
ReduceOctets(segs, i, acc) ==
    IF i > Len(segs) THEN acc
    ELSE ReduceOctets(segs, i + 1, NumAdd(Shl(acc, 8), ParseInt(segs[i])))

\* ipToLong without the final >>> 0
ipToLongSigned(ip) == ReduceOctets(Split(ip, "."), 1, Num(0))

ipToLong(ip) == UShr(ReduceOctets(Split(ip, "."), 1, Num(0)), 0)

longToIp(long) ==
    Join(<< NumToString(BitAnd(UShr(long, 24), Num(255))[2]),
            NumToString(BitAnd(UShr(long, 16), Num(255))[2]),
            NumToString(BitAnd(UShr(long, 8), Num(255))[2]),
            NumToString(BitAnd(long, Num(255))[2]) >>, ".")

MinMask == 24
MaxMask == 32

\* the loop with i <= broadcastLong
RangeLoopInclusive(from, broadcastLong) ==
    LET d == NumSub(broadcastLong, from)
    IN  IF ~NumLess(broadcastLong, from)
        THEN [k \in 1..((d[1] * B16) + d[2] + 1) |-> longToIp(NumAdd(from, Num(k - 1)))]
        ELSE <<>>

\* for (let i = from; i < broadcastLong; i++) ips.push(longToIp(i)):
\* the k-th iteration pushes longToIp(from + k - 1), for as long as
\* from + k - 1 < broadcastLong (at most 254 iterations for a mask >= 24)
RangeLoop(from, broadcastLong) ==
    LET d == NumSub(broadcastLong, from)
    IN  IF NumLess(from, broadcastLong)
        THEN [k \in 1..((d[1] * B16) + d[2]) |-> longToIp(NumAdd(from, Num(k - 1)))]
        ELSE <<>>

\* getIPRange with the host bits of the base address left in place
getIPRangeUnmasked(cidr) ==
    LET parts == Split(cidr, "/")
        ip == parts[1]
        maskStr == IF Len(parts) >= 2 THEN parts[2] ELSE Undefined
        mask == ParseInt(maskStr)
    IN  IF IsNaN(mask) \/ NumLess(mask, Num(MinMask)) \/ NumLess(Num(MaxMask), mask)
        THEN <<>>
        ELSE LET ipLong == ipToLong(ip)
                 maskLong == Shl(Num(-1), MaxMask - mask[2])
                 networkLong == ToInt32(ipLong)
                 broadcastLong == NumAdd(BitAnd(ipLong, maskLong), BitNot(maskLong))
             IN  RangeLoop(NumAdd(networkLong, Num(1)), broadcastLong)

\* getIPRange with the loop started at the network address
getIPRangeFromNetwork(cidr) ==
    LET parts == Split(cidr, "/")
        ip == parts[1]
        maskStr == IF Len(parts) >= 2 THEN parts[2] ELSE Undefined
        mask == ParseInt(maskStr)
    IN  IF IsNaN(mask) \/ NumLess(mask, Num(MinMask)) \/ NumLess(Num(MaxMask), mask)
        THEN <<>>
        ELSE LET ipLong == ipToLong(ip)
                 maskLong == Shl(Num(-1), MaxMask - mask[2])
                 networkLong == BitAnd(ipLong, maskLong)
                 broadcastLong == NumAdd(networkLong, BitNot(maskLong))
             IN  RangeLoop(networkLong, broadcastLong)

\* getIPRange with the lower limit of the mask at 23 instead of MinMask
getIPRangeWide(cidr) ==
    LET parts == Split(cidr, "/")
        ip == parts[1]
        maskStr == IF Len(parts) >= 2 THEN parts[2] ELSE Undefined
        mask == ParseInt(maskStr)
    IN  IF IsNaN(mask) \/ NumLess(mask, Num(23)) \/ NumLess(Num(MaxMask), mask)
        THEN <<>>
        ELSE LET ipLong == ipToLong(ip)
                 maskLong == Shl(Num(-1), MaxMask - mask[2])
                 networkLong == BitAnd(ipLong, maskLong)
                 broadcastLong == NumAdd(networkLong, BitNot(maskLong))
             IN  RangeLoop(NumAdd(networkLong, Num(1)), broadcastLong)

\* a range that takes a missing or short prefix length for /30
getIPRangeDefaulting(cidr) ==
    LET parts == Split(cidr, "/")
        ip == parts[1]
        maskStr == IF Len(parts) >= 2 THEN parts[2] ELSE Undefined
        parsed == ParseInt(maskStr)
        mask == IF IsNaN(parsed) \/ NumLess(parsed, Num(MinMask)) THEN Num(30) ELSE parsed
    IN  IF NumLess(Num(MaxMask), mask)
        THEN <<>>
        ELSE LET ipLong == ipToLong(ip)
                 maskLong == Shl(Num(-1), MaxMask - mask[2])
                 networkLong == BitAnd(ipLong, maskLong)
                 broadcastLong == NumAdd(networkLong, BitNot(maskLong))
             IN  RangeLoop(NumAdd(networkLong, Num(1)), broadcastLong)

getIPRange(cidr) ==
    LET parts == Split(cidr, "/")
        ip == parts[1]
        maskStr == IF Len(parts) >= 2 THEN parts[2] ELSE Undefined
        mask == ParseInt(maskStr)
    IN  IF IsNaN(mask) \/ NumLess(mask, Num(MinMask)) \/ NumLess(Num(MaxMask), mask)
        THEN <<>>
        ELSE LET ipLong == ipToLong(ip)
                 maskLong == Shl(Num(-1), MaxMask - mask[2])
                 networkLong == BitAnd(ipLong, maskLong)
                 broadcastLong == NumAdd(networkLong, BitNot(maskLong))
             IN  RangeLoop(NumAdd(networkLong, Num(1)), broadcastLong)

\* /^([0-9]{1,3}\.){3}[0-9]{1,3}(\/([0-9]|[1-2][0-9]|3[0-2]))?$/ : neither "." nor
\* "/" is a digit, so the match is decided segment by segment
IsOctetText(seg) == Len(seg) \in 1..3 /\ \A i \in 1..Len(seg) : IsDigit(seg[i])
IsPrefixText(p) ==
    \/ Len(p) = 1 /\ IsDigit(p[1])
    \/ Len(p) = 2 /\ p[1] \in {"1", "2"} /\ IsDigit(p[2])
    \/ Len(p) = 2 /\ p[1] = "3" /\ p[2] \in {"0", "1", "2"}

isValidCIDR(cidr) ==
    LET parts == Split(cidr, "/")
        segs == Split(parts[1], ".")
    IN  /\ Len(parts) \in 1..2
        /\ Len(segs) = 4
        /\ \A i \in 1..4 : IsOctetText(segs[i])
        /\ Len(parts) = 2 => IsPrefixText(parts[2])

(***************************************************************************)
(* types.ts: IPStatus and IPRecord.  lastUpdated (a wall-clock timestamp   *)
(* that no code path reads) is not represented.                            *)
(***************************************************************************)
AVAILABLE == "Available"
RESERVED == "Reserved"
ACTIVE == "Active"
DHCP == "DHCP"
OFFLINE == "Offline"
IPStatus == {AVAILABLE, RESERVED, ACTIVE, DHCP, OFFLINE}

IPRecord(ip, status, hostname, owner, description) ==
    [ip |-> ip, status |-> status, hostname |-> hostname, owner |-> owner, description |-> description]

\* Math.random() draws are counted in thousandths: r stands for r / 1000
ActiveAbove == 800
ReservedAbove == 700
DhcpAbove == 650

\* thresholds that take the boundary draw into the higher class
MockStatusInclusive(rand) ==
    IF rand >= ActiveAbove THEN ACTIVE
    ELSE IF rand >= ReservedAbove THEN RESERVED
    ELSE IF rand >= DhcpAbove THEN DHCP
    ELSE AVAILABLE

MockStatus(rand) ==
    IF rand > ActiveAbove THEN ACTIVE
    ELSE IF rand > ReservedAbove THEN RESERVED
    ELSE IF rand > DhcpAbove THEN DHCP
    ELSE AVAILABLE

HostLocal(index) == <<"h", "o", "s", "t", "-">> \o NumToString(index) \o <<".", "l", "o", "c", "a", "l">>

\* a record whose hostname counts the addresses from 1
SeededRecordOneBased(ip, index, status) ==
    IPRecord(ip, status, IF status = ACTIVE THEN HostLocal(index + 1) ELSE Undefined, Undefined, Undefined)

\* the record generateMockSubnet makes for the address at position index
SeededRecord(ip, index, status) ==
    IPRecord(ip, status, IF status = ACTIVE THEN HostLocal(index) ELSE Undefined, Undefined, Undefined)

\* ips.forEach((ip, index) => records[ip] = ...): a later index overwrites an
\* earlier one with the same address.  rnd[j] is the draw of the j-th call of
\* Math.random(), and the draws repeat with the period of rnd.
LastIndexOf(ips, k) == CHOOSE i \in 1..Len(ips) : ips[i] = k /\ \A j \in (i + 1)..Len(ips) : ips[j] # k

MockRecord(ip, index, rnd) == SeededRecord(ip, index, MockStatus(rnd[(index % Len(rnd)) + 1]))

MockRecords(ips, rnd) == [k \in {ips[i] : i \in 1..Len(ips)} |-> MockRecord(k, LastIndexOf(ips, k) - 1, rnd)]

generateMockSubnet(cidr, name, rnd) == MockRecords(getIPRange(cidr), rnd)

\* a factory that seeds its records the way the demo generator does
generateEmptySeeded(cidr) == generateMockSubnet(cidr, "", <<801, 0>>)

\* buildEmpty of the specification (the ipUtils export that SubnetManager imports)
EmptyRecords(ips) == [k \in {ips[i] : i \in 1..Len(ips)} |-> IPRecord(k, AVAILABLE, Undefined, Undefined, Undefined)]

generateEmptySubnet(cidr) == EmptyRecords(getIPRange(cidr))

(***************************************************************************)
(* components/IPGrid.tsx: the sort comparators                             *)
(***************************************************************************)
\* a.ip.split('.').reduce((acc, oct) => (acc << 8) + parseInt(oct), 0)
GridNum(ip) == ReduceOctets(Split(ip, "."), 1, Num(0))

\* IPGrid: sortedIPs comparator
sortedIPsCompare(a, b) == NumSub(GridNum(a.ip), GridNum(b.ip))

\* SubnetManager: list view comparator
listViewCompare(a, b) == NumSub(GridNum(a.ip), GridNum(b.ip))

(***************************************************************************)
(* Inputs of the address arithmetic: dotted quads and CIDR texts, each     *)
(* carried together with the numbers it was written from.                  *)
(***************************************************************************)
OctetsA == {0, 10, 127, 128, 192, 255}
OctetsB == {0, 168}
OctetsC == {1}
OctetsD == {0, 9, 77, 100, 130, 255}
RangeOctetsD == {0, 77, 255}
PrefixInputs == {0, 16, 23, 24, 25, 26, 27, 28, 29, 30, 31, 32, 33}

MkIp(q) == Join(<<NumToString(q[1]), NumToString(q[2]), NumToString(q[3]), NumToString(q[4])>>, ".")

Quads == OctetsA \X OctetsB \X OctetsC \X OctetsD

IpInput(q) == [text |-> MkIp(q), quad |-> q]
IpInputs == {IpInput(q) : q \in Quads}

CompareOctetsA == {10, 127, 128, 192}
CompareOctetsD == {9, 100}
CompareInputs == {IpInput(q) : q \in CompareOctetsA \X OctetsB \X OctetsC \X CompareOctetsD}

CidrInput(q, n) == [text |-> MkIp(q) \o <<"/">> \o NumToString(n), quad |-> q, hasPrefix |-> TRUE, prefix |-> n]
BareInput(q) == [text |-> MkIp(q), quad |-> q, hasPrefix |-> FALSE, prefix |-> 0]
RangeQuads == OctetsA \X OctetsB \X OctetsC \X RangeOctetsD
CidrInputs == {CidrInput(q, n) : q \in RangeQuads, n \in PrefixInputs} \cup {BareInput(q) : q \in RangeQuads}

LongInputs == {0, 1, 2560, 32767, 32768, 49320, 65535} \X {0, 1, 255, 256, 65535}

\* Math.random() sequences: a sequence of RandPeriod draws, repeated
RandPeriod == 2
\* draws on both sides of every threshold, and the ends of [0, 1)
RandDraws == {0, 650, 651, 700, 701, 800, 801, 999}
RandSeqs == [1..RandPeriod -> RandDraws]

SeedQuads == {<<10, 0, 1, 0>>, <<192, 168, 1, 77>>}
SeedPrefixes == {16, 24, 29, 30, 31, 32}
SeedInputs == {CidrInput(q, n) : q \in SeedQuads, n \in SeedPrefixes} \cup {BareInput(q) : q \in SeedQuads}

\* texts offered to isValidCIDR besides the CIDR texts above: quads with an
\* octet above 255, and strings that are no dotted quad at all
OverflowQuads == {<<256, 0, 1, 0>>, <<999, 168, 1, 0>>, <<10, 0, 1, 256>>, <<10, 0, 1, 999>>}
OverflowInputs == {CidrInput(q, n) : q \in OverflowQuads, n \in {24, 33}} \cup {BareInput(q) : q \in OverflowQuads}
OtherTexts ==
    {<<>>,
     <<"1", "0", ".", "0", ".", "1">>,
     <<"1", "0", ".", "0", ".", "1", ".", "0", ".", "5">>,
     <<"1", "0", ".", "0", ".", "1", ".", "0", "/">>,
     <<"1", "0", ".", "0", ".", "1", ".", "0", "/", "2", "4", "/", "8">>,
     <<"1", "0", ".", "0", ".", ".", "0", "/", "2", "4">>,
     <<"1", "0", "0", "0", ".", "0", ".", "1", ".", "0">>,
     <<"-", "1", ".", "0", ".", "1", ".", "0">>,
     <<"a", ".", "b", ".", "c", ".", "d">>,
     <<"1", "0", ".", "0", ".", "1", ".", "0", "/", "x">>}
OtherInputs == {[text |-> t] : t \in OtherTexts}
ValidityInputs == CidrInputs \cup OverflowInputs \cup OtherInputs

(***************************************************************************)
(* State                                                                   *)
(***************************************************************************)
VARIABLES
    op,     \* the ipUtils / comparator function last called ("none" initially)
    arg,    \* its input
    res,    \* its result
    isSupabaseConfigured,   \* supabaseClient.ts: fixed when the page loads
    db,                     \* the Supabase tables subnets and ip_records
    currentUser,            \* App: role of the signed-in user, or NoUser
    currentView,            \* App
    isLoading,              \* App
    subnets,                \* App: the list handed to every view
    selectedSubnetId,       \* SubnetManager
    showAddModal,           \* SubnetManager
    selectedIP,             \* SubnetManager: <<>> for null, <<record>> otherwise
    isSaving,               \* SubnetManager
    chatHistory,            \* AIConsultant: the messages after the greeting
    advisorIsLoading,       \* AIConsultant: its own isLoading
    tasks,                  \* handlers suspended at an await, with what their closures hold
    created,                \* history: the subnet last handed to StorageService.createSubnet
    saved,                  \* history: the records touched by the last handleUpdateIP
    used                    \* how often each bounded event has happened

callVars == <<op, arg, res>>
uiVars == <<currentUser, currentView, isLoading, subnets, selectedSubnetId, showAddModal,
            selectedIP, isSaving, chatHistory, advisorIsLoading, tasks>>
appVars == <<isSupabaseConfigured, db, uiVars, created, saved, used>>
vars == <<callVars, appVars>>

(***************************************************************************)
(* Bounds and inputs of the application                                    *)
(***************************************************************************)
MaxLogins == 1
MaxOps == 2
MaxFailures == 1
MaxInFlight == 2

NoUser == "none"
NullId == "null"
\* Date.now().toString(), the provisional id built by the UI
TempId == "tmp"
\* ids assigned by the database, in order of insertion
DbIds == <<"s1", "s2", "s3", "s4", "s5", "s6">>

\* draws of Math.random() offered to the application: the first of each
\* period above the Active threshold, the others below every threshold
AppRands == {[j \in 1..RandPeriod |-> IF j = 1 THEN 801 ELSE 0]}

OfficeCidr == CidrInput(<<192, 168, 1, 0>>, 24)
ServerCidr == CidrInput(<<10, 0, 50, 0>>, 24)
LabCidr == CidrInput(<<10, 0, 1, 0>>, 30)
LabBare == BareInput(<<10, 0, 1, 0>>)
LabWide == CidrInput(<<10, 0, 1, 0>>, 33)
LabShort == CidrInput(<<10, 0, 0, 0>>, 16)

\* what the administrator types into the New Subnet form
FormNames == {"", "lab"}
FormCidrs == {LabCidr, LabBare, LabWide, LabShort}
FormVlans == {<<>>}
\* what the advisor's model answers to a request for a plan ("{}" when it
\* fails); the model is free to name a block that is no CIDR
AdvisorReplies ==
    {[name |-> "ai-net", cidr |-> LabCidr.text], [name |-> "ai-wide", cidr |-> LabWide.text],
     [name |-> "", cidr |-> <<>>]}
\* what the administrator picks in the status <select>: Available, the status
\* an operator's save forces, and one that only an administrator can set
StatusChoices == {AVAILABLE, RESERVED, OFFLINE}
\* the cells the user clicks
ClickIps == {MkIp(<<192, 168, 1, 1>>), MkIp(<<192, 168, 1, 2>>), MkIp(<<10, 0, 1, 1>>)}

KnownCidrs == {OfficeCidr, ServerCidr} \cup FormCidrs

(***************************************************************************)
(* types.ts: Subnet                                                        *)
(***************************************************************************)
Subnet(id, name, cidr, gateway, vlan, records) ==
    [id |-> id, name |-> name, cidr |-> cidr, gateway |-> gateway, vlan |-> vlan, records |-> records]

(***************************************************************************)
(* services/storage.ts                                                     *)
(***************************************************************************)
\* getMockData: both maps are drawn with the same sequence of draws
getMockData(rnd) ==
    <<Subnet("1", "HQ - Floor 1", OfficeCidr.text, MkIp(<<192, 168, 1, 1>>), Num(10),
             generateMockSubnet(OfficeCidr.text, "HQ - Floor 1", rnd)),
      Subnet("2", "Data Center A", ServerCidr.text, MkIp(<<10, 0, 50, 1>>), Num(50),
             generateMockSubnet(ServerCidr.text, "Data Center A", rnd))>>

MockData == [rnd \in AppRands |-> getMockData(rnd)]

EmptyDb == [subnets |-> <<>>, ip_records |-> {}, nextId |-> 1]

\* createSubnet, first insert: the row gets the id the database assigns
InsertSubnet(d, subnet) ==
    [d EXCEPT !.subnets = Append(@, [id |-> DbIds[d.nextId], name |-> subnet.name, cidr |-> subnet.cidr,
                                      gateway |-> subnet.gateway, vlan |-> subnet.vlan]),
              !.nextId = @ + 1]

\* createSubnet, second insert: ip, subnet_id, status and hostname of every
\* record; owner and description are not sent and stay null
InsertIps(d, newId, subnet) ==
    [d EXCEPT !.ip_records = @ \cup
        {[subnet_id |-> newId, ip |-> subnet.records[k].ip, status |-> subnet.records[k].status,
          hostname |-> subnet.records[k].hostname, owner |-> Undefined, description |-> Undefined]
            : k \in DOMAIN subnet.records}]

\* updateIP: .update({...}).eq('ip', ipRecord.ip), whatever subnetId is
UpdateRows(d, subnetId, ipRecord) ==
    [d EXCEPT !.ip_records =
        {IF r.ip = ipRecord.ip
         THEN [r EXCEPT !.status = ipRecord.status, !.hostname = ipRecord.hostname,
                        !.owner = ipRecord.owner, !.description = ipRecord.description]
         ELSE r : r \in @}]

\* deleteSubnet: the rows of the subnet go with it (ON DELETE CASCADE)
DeleteRows(d, subnetId) ==
    [d EXCEPT !.subnets = SelectSeq(@, LAMBDA s : s.id # subnetId),
              !.ip_records = {r \in @ : r.subnet_id # subnetId}]

\* getAllSubnets, step 3: the rows merged into nested subnets
MergeRows(d) ==
    [i \in 1..Len(d.subnets) |->
        LET s == d.subnets[i]
            subnetIPs == {r \in d.ip_records : r.subnet_id = s.id}
        IN  Subnet(s.id, s.name, s.cidr, s.gateway, s.vlan,
                   [k \in {r.ip : r \in subnetIPs} |->
                        LET r == CHOOSE r \in subnetIPs : r.ip = k
                        IN  IPRecord(r.ip, r.status, r.hostname, r.owner, r.description)])]

\* getAllSubnets of services/storage.ts: the two queries are read as one
\* snapshot, and a failure of either ends in the catch block
getAllSubnetsIn(configured, d, outcome, rnd) ==
    IF ~configured THEN MockData[rnd]
    ELSE IF outcome # "ok" THEN MockData[rnd]
    ELSE IF Len(MergeRows(d)) > 0 THEN MergeRows(d) ELSE MockData[rnd]

getAllSubnets(d, outcome, rnd) == getAllSubnetsIn(isSupabaseConfigured, d, outcome, rnd)

\* the other revision of the storage service (part_004): its demo data is one
\* subnet, and its getAllSubnets returns what the database holds, [] when a
\* query fails
getMockData_part004(rnd) ==
    <<Subnet("1", "HQ - Floor 1 (MOCK)", OfficeCidr.text, MkIp(<<192, 168, 1, 1>>), Num(10),
             generateMockSubnet(OfficeCidr.text, "HQ - Floor 1 (MOCK)", rnd))>>

MockData_part004 == [rnd \in AppRands |-> getMockData_part004(rnd)]

getAllSubnets_part004(configured, d, outcome, rnd) ==
    IF ~configured THEN MockData_part004[rnd]
    ELSE IF outcome # "ok" THEN <<>>
    ELSE MergeRows(d)

(***************************************************************************)
(* What the components render                                              *)
(***************************************************************************)
\* a role test that every signed-in user passes
isAdminAnyone == currentUser # NoUser

isAdmin == currentUser = "admin"
MgrMounted == currentUser # NoUser /\ ~isLoading /\ currentView = "subnets"
AdvMounted == currentUser # NoUser /\ ~isLoading /\ currentView = "advisor"

\* the messages of the user in the chat
UserMessages(chat) == {k \in 1..Len(chat) : chat[k].role = "user"}

\* the suggestions for which a "Create this Subnet" button is rendered
Offered(chat) ==
    {chat[k].suggestion[1] :
        k \in {k \in 1..Len(chat) : isAdmin /\ chat[k].suggestion # <<>> /\ chat[k].suggestion[1].cidr # <<>>}}

\* subnets.find(s => s.id === selectedSubnetId)
HasActive == \E i \in 1..Len(subnets) : subnets[i].id = selectedSubnetId
activeSubnet ==
    subnets[CHOOSE i \in 1..Len(subnets) :
                subnets[i].id = selectedSubnetId /\ \A j \in 1..(i - 1) : subnets[j].id # selectedSubnetId]

canEditIP(ip) == isAdmin \/ ip.status = AVAILABLE

\* the IP detail modal is not part of the empty-state page
IPModalOpen == MgrMounted /\ Len(subnets) > 0 /\ selectedIP # <<>>
AddModalOpen == MgrMounted /\ showAddModal /\ isAdmin
\* both modals cover the whole window, the sidebar included
Overlay == IPModalOpen \/ AddModalOpen

\* useState initial value of selectedSubnetId
MountSelect(subs) == IF Len(subs) > 0 THEN subs[1].id ELSE NullId

\* a component without the effect: the selection stays as the handlers set it
SyncSelectNever(sel, subs) == sel

\* the effect that keeps selectedSubnetId on an existing subnet
SyncSelect(sel, subs) ==
    IF sel = NullId /\ Len(subs) > 0 THEN subs[1].id
    ELSE IF sel # NullId /\ (\A i \in 1..Len(subs) : subs[i].id # sel) /\ Len(subs) > 0 THEN subs[1].id
    ELSE sel

\* One render after a handler has set state: the SubnetManager and the
\* AIConsultant keep their state while they stay mounted, start afresh when
\* they are mounted, and a suspended handler of an unmounted component can no
\* longer change that component's state.
Commit(user, loading, view, subs, sel, add, ip, saving, chat, thinking, ts) ==
    LET mgrNow == user # NoUser /\ ~loading /\ view = "subnets"
        advNow == user # NoUser /\ ~loading /\ view = "advisor"
        mgrKept == MgrMounted /\ mgrNow
        advKept == AdvMounted /\ advNow
    IN  /\ currentUser' = user
        /\ isLoading' = loading
        /\ currentView' = view
        /\ subnets' = subs
        /\ selectedSubnetId' = IF ~mgrNow THEN NullId
                               ELSE IF mgrKept THEN SyncSelect(sel, subs) ELSE MountSelect(subs)
        /\ showAddModal' = (mgrKept /\ add)
        /\ selectedIP' = IF mgrKept THEN ip ELSE <<>>
        /\ isSaving' = (mgrKept /\ saving)
        /\ chatHistory' = IF advKept THEN chat ELSE <<>>
        /\ advisorIsLoading' = (advKept /\ thinking)
        /\ tasks' = [i \in 1..Len(ts) |->
                        IF \/ ts[i].owner = "SubnetManager" /\ ~mgrKept
                           \/ ts[i].owner = "AIConsultant" /\ ~advKept
                        THEN [ts[i] EXCEPT !.mounted = FALSE] ELSE ts[i]]

Task(kind, owner, role, snap, id, rec, subnet, touched, plan) ==
    [kind |-> kind, owner |-> owner, mounted |-> TRUE, pc |-> 1, role |-> role, snap |-> snap,
     id |-> id, rec |-> rec, subnet |-> subnet, touched |-> touched, plan |-> plan, msg |-> 0]

Remove(ts, i) == [j \in 1..(Len(ts) - 1) |-> IF j < i THEN ts[j] ELSE ts[j + 1]]

\* a request can be answered or fail
Outcomes == IF used.failures < MaxFailures THEN {"ok", "error"} ELSE {"ok"}
Failed(outcome) == [used EXCEPT !.failures = IF outcome = "error" THEN @ + 1 ELSE @]

(***************************************************************************)
(* App.tsx                                                                 *)
(***************************************************************************)
\* handleLogin once authLogin has answered with a user of this role, and the
\* effect on [currentUser] up to its await
handleLogin(role, rnd) ==
    /\ currentUser = NoUser
    /\ used.logins < MaxLogins
    /\ IF isSupabaseConfigured
       THEN /\ Len(tasks) < MaxInFlight
            /\ Commit(role, TRUE, currentView, subnets, selectedSubnetId, showAddModal, selectedIP,
                      isSaving, chatHistory, advisorIsLoading,
                      Append(tasks, Task("loadData", "App", role, <<>>, NullId, <<>>, <<>>, {}, FALSE)))
       ELSE Commit(role, FALSE, currentView, getAllSubnets(db, "ok", rnd), selectedSubnetId,
                   showAddModal, selectedIP, isSaving, chatHistory, advisorIsLoading, tasks)
    /\ used' = [used EXCEPT !.logins = @ + 1]
    /\ UNCHANGED <<callVars, isSupabaseConfigured, db, created, saved>>

\* loadData after its await
loadDataDone(i, outcome, rnd) ==
    /\ tasks[i].kind = "loadData"
    /\ Commit(currentUser, FALSE, currentView, getAllSubnets(db, outcome, rnd), selectedSubnetId,
              showAddModal, selectedIP, isSaving, chatHistory, advisorIsLoading, Remove(tasks, i))
    /\ used' = Failed(outcome)
    /\ UNCHANGED <<callVars, isSupabaseConfigured, db, created, saved>>

\* Sidebar: Sign Out
onLogout ==
    /\ currentUser # NoUser
    /\ ~Overlay
    /\ Commit(NoUser, isLoading, currentView, subnets, selectedSubnetId, showAddModal, selectedIP,
              isSaving, chatHistory, advisorIsLoading, tasks)
    /\ UNCHANGED <<callVars, isSupabaseConfigured, db, created, saved, used>>

\* Sidebar: a navigation item
setView(view) ==
    /\ currentUser # NoUser
    /\ ~Overlay
    /\ view # currentView
    /\ Commit(currentUser, isLoading, view, subnets, selectedSubnetId, showAddModal, selectedIP,
              isSaving, chatHistory, advisorIsLoading, tasks)
    /\ UNCHANGED <<callVars, isSupabaseConfigured, db, created, saved, used>>

\* handleAddSubnetFromAI builds its subnet with the demo generator
AISubnetSeeded(name, cidr, rnd) ==
    Subnet(TempId, name, cidr, Split(cidr, "/")[1], Undefined, generateMockSubnet(cidr, name, rnd))

\* handleAddSubnetFromAI up to its first await (the "Create this Subnet" button)
handleAddSubnetFromAI(s, rnd) ==
    /\ AdvMounted /\ isAdmin
    /\ s \in Offered(chatHistory)
    /\ used.ops < MaxOps
    /\ LET newSubnet == AISubnetSeeded(s.name, s.cidr, rnd)
       IN  /\ created' = <<[via |-> "advisor", factory |-> "generateMockSubnet", subnet |-> newSubnet]>>
           /\ IF isSupabaseConfigured
              THEN /\ Len(tasks) < MaxInFlight
                   /\ Commit(currentUser, isLoading, currentView, subnets, selectedSubnetId,
                             showAddModal, selectedIP, isSaving, chatHistory, advisorIsLoading,
                             Append(tasks, Task("handleAddSubnetFromAI", "App", currentUser, <<>>,
                                                NullId, <<>>, <<newSubnet>>, {}, FALSE)))
              ELSE Commit(currentUser, isLoading, "subnets", getAllSubnets(db, "ok", rnd),
                          selectedSubnetId, showAddModal, selectedIP, isSaving, chatHistory, advisorIsLoading, tasks)
    /\ used' = [used EXCEPT !.ops = @ + 1]
    /\ UNCHANGED <<callVars, isSupabaseConfigured, db, saved>>

\* handleAddSubnetFromAI after createSubnet has returned: reload and show
reloadAfterAI(i, outcome, rnd) ==
    /\ tasks[i].kind = "handleAddSubnetFromAI"
    /\ tasks[i].pc = 3
    /\ Commit(currentUser, isLoading, "subnets", getAllSubnets(db, outcome, rnd), selectedSubnetId,
              showAddModal, selectedIP, isSaving, chatHistory, advisorIsLoading, Remove(tasks, i))
    /\ used' = Failed(outcome)
    /\ UNCHANGED <<callVars, isSupabaseConfigured, db, created, saved>>

(***************************************************************************)
(* components/IPGrid.tsx: SubnetManager                                    *)
(***************************************************************************)
\* the subnet <select>
selectSubnet(id) ==
    /\ MgrMounted /\ ~Overlay
    /\ \E i \in 1..Len(subnets) : subnets[i].id = id
    /\ id # selectedSubnetId
    /\ Commit(currentUser, isLoading, currentView, subnets, id, showAddModal, selectedIP, isSaving,
              chatHistory, advisorIsLoading, tasks)
    /\ UNCHANGED <<callVars, isSupabaseConfigured, db, created, saved, used>>

\* the New Subnet / Create First Subnet button, and Cancel in the modal
openAddModal ==
    /\ MgrMounted /\ isAdmin /\ ~Overlay
    /\ Commit(currentUser, isLoading, currentView, subnets, selectedSubnetId, TRUE, selectedIP,
              isSaving, chatHistory, advisorIsLoading, tasks)
    /\ UNCHANGED <<callVars, isSupabaseConfigured, db, created, saved, used>>

cancelAddModal ==
    /\ AddModalOpen
    /\ Commit(currentUser, isLoading, currentView, subnets, selectedSubnetId, FALSE, selectedIP,
              isSaving, chatHistory, advisorIsLoading, tasks)
    /\ UNCHANGED <<callVars, isSupabaseConfigured, db, created, saved, used>>

\* handleCreateSubnet: the subnet built from the form
NewSubnet(name, cidr, vlan) ==
    Subnet(TempId, name, cidr, Split(cidr, "/")[1],
           IF IsNaN(ParseInt(vlan)) \/ ParseInt(vlan) = Num(0) THEN Num(0) ELSE ParseInt(vlan),
           generateEmptySubnet(cidr))

\* handleCreateSubnet up to its await (the Create button of the modal)
handleCreateSubnet(name, cidr, vlan) ==
    /\ AddModalOpen /\ ~isSaving
    /\ used.ops < MaxOps
    /\ IF name = "" \/ ~isValidCIDR(cidr)
       THEN UNCHANGED <<uiVars, created, used>>
       ELSE LET newSubnet == NewSubnet(name, cidr, vlan)
            IN  /\ created' = <<[via |-> "form", factory |-> "generateEmptySubnet", subnet |-> newSubnet]>>
                /\ used' = [used EXCEPT !.ops = @ + 1]
                /\ IF isSupabaseConfigured
                   THEN /\ Len(tasks) < MaxInFlight
                        /\ Commit(currentUser, isLoading, currentView, subnets, selectedSubnetId,
                                  showAddModal, selectedIP, TRUE, chatHistory, advisorIsLoading,
                                  Append(tasks, Task("handleCreateSubnet", "SubnetManager", currentUser,
                                                     <<>>, NullId, <<>>, <<newSubnet>>, {}, FALSE)))
                   ELSE Commit(currentUser, isLoading, currentView, subnets, selectedSubnetId,
                               FALSE, selectedIP, FALSE, chatHistory, advisorIsLoading, tasks)
    /\ UNCHANGED <<callVars, isSupabaseConfigured, db, saved>>

\* what follows "await StorageService.createSubnet(...)" in either caller
AfterCreateSubnet(i) ==
    IF tasks[i].kind = "handleAddSubnetFromAI"
    THEN Commit(currentUser, isLoading, currentView, subnets, selectedSubnetId, showAddModal,
                selectedIP, isSaving, chatHistory, advisorIsLoading, [tasks EXCEPT ![i].pc = 3])
    ELSE Commit(currentUser, isLoading, currentView, subnets, selectedSubnetId,
                showAddModal /\ ~tasks[i].mounted, selectedIP, isSaving /\ ~tasks[i].mounted,
                chatHistory, advisorIsLoading, Remove(tasks, i))

\* StorageService.createSubnet: the insert into subnets
createSubnetInsert(i, outcome) ==
    /\ tasks[i].kind \in {"handleCreateSubnet", "handleAddSubnetFromAI"}
    /\ tasks[i].pc = 1
    /\ IF outcome = "ok"
       THEN /\ db' = InsertSubnet(db, tasks[i].subnet[1])
            /\ Commit(currentUser, isLoading, currentView, subnets, selectedSubnetId, showAddModal,
                      selectedIP, isSaving, chatHistory, advisorIsLoading,
                      [tasks EXCEPT ![i].pc = 2, ![i].id = DbIds[db.nextId]])
       ELSE /\ db' = db
            /\ AfterCreateSubnet(i)
    /\ used' = Failed(outcome)
    /\ UNCHANGED <<callVars, isSupabaseConfigured, created, saved>>

\* StorageService.createSubnet: the bulk insert into ip_records
createSubnetInsertIps(i, outcome) ==
    /\ tasks[i].kind \in {"handleCreateSubnet", "handleAddSubnetFromAI"}
    /\ tasks[i].pc = 2
    /\ db' = IF outcome = "ok" THEN InsertIps(db, tasks[i].id, tasks[i].subnet[1]) ELSE db
    /\ AfterCreateSubnet(i)
    /\ used' = Failed(outcome)
    /\ UNCHANGED <<callVars, isSupabaseConfigured, created, saved>>

\* a cell of the grid, or Edit / View in the list
onIPClick(ip) ==
    /\ MgrMounted /\ ~Overlay
    /\ HasActive
    /\ ip \in DOMAIN activeSubnet.records
    /\ Commit(currentUser, isLoading, currentView, subnets, selectedSubnetId, showAddModal,
              <<activeSubnet.records[ip]>>, isSaving, chatHistory, advisorIsLoading, tasks)
    /\ UNCHANGED <<callVars, isSupabaseConfigured, db, created, saved, used>>

\* the X of the IP detail modal
closeIPModal ==
    /\ IPModalOpen
    /\ Commit(currentUser, isLoading, currentView, subnets, selectedSubnetId, showAddModal,
              <<>>, isSaving, chatHistory, advisorIsLoading, tasks)
    /\ UNCHANGED <<callVars, isSupabaseConfigured, db, created, saved, used>>

\* subnets.map(s => s.id === activeSubnet.id ? updatedSubnet : s)
ReplaceSubnet(subs, id, updatedSubnet) ==
    [i \in 1..Len(subs) |-> IF subs[i].id = id THEN updatedSubnet ELSE subs[i]]

\* { ...activeSubnet.records, [updatedRecord.ip]: updatedRecord }
PutRecord(records, updatedRecord) ==
    [k \in DOMAIN records \cup {updatedRecord.ip} |->
        IF k = updatedRecord.ip THEN updatedRecord ELSE records[k]]

\* the records of the UI and of the database that a save writes
TouchedUI(sub, updatedRecord) ==
    {[store |-> "ui", subnet |-> sub.id,
      before |-> IF updatedRecord.ip \in DOMAIN sub.records
                 THEN sub.records[updatedRecord.ip].status ELSE "absent",
      after |-> updatedRecord.status]}
TouchedDB(d, updatedRecord) ==
    {[store |-> "db", subnet |-> r.subnet_id, before |-> r.status, after |-> updatedRecord.status]
        : r \in {r \in d.ip_records : r.ip = updatedRecord.ip}}

\* handleUpdateIP up to its await (the Save button of the IP detail modal);
\* status is what the administrator's <select> shows, and for the operator,
\* who has no <select>, the status of the record clicked
handleUpdateIP(status) ==
    /\ IPModalOpen /\ ~isSaving
    /\ used.ops < MaxOps
    /\ status \in (IF isAdmin THEN IPStatus ELSE {selectedIP[1].status})
    /\ LET shown == [selectedIP[1] EXCEPT !.status = status]
       IN  /\ canEditIP(shown)
           /\ IF ~HasActive
              THEN UNCHANGED <<uiVars, saved, used>>
              ELSE LET updatedRecord ==
                           IF ~isAdmin /\ shown.status = AVAILABLE
                           THEN [shown EXCEPT !.status = RESERVED] ELSE shown
                       \* the operator's record is the object held by subnets:
                       \* the assignment to its status shows there at once
                       shared == /\ ~isAdmin
                                 /\ shown.ip \in DOMAIN activeSubnet.records
                                 /\ activeSubnet.records[shown.ip] = shown
                       seen == IF shared
                               THEN ReplaceSubnet(subnets, activeSubnet.id,
                                        [activeSubnet EXCEPT !.records = PutRecord(@, updatedRecord)])
                               ELSE subnets
                       updatedSubnet == [activeSubnet EXCEPT !.records = PutRecord(@, updatedRecord)]
                       touched == TouchedUI(activeSubnet, updatedRecord)
                   IN  /\ saved' = <<[role |-> currentUser, touched |-> touched]>>
                       /\ used' = [used EXCEPT !.ops = @ + 1]
                       /\ IF isSupabaseConfigured
                          THEN /\ Len(tasks) < MaxInFlight
                               /\ Commit(currentUser, isLoading, currentView, seen, selectedSubnetId,
                                         showAddModal, <<updatedRecord>>, TRUE, chatHistory, advisorIsLoading,
                                         Append(tasks, Task("handleUpdateIP", "SubnetManager", currentUser,
                                                            seen, activeSubnet.id, <<updatedRecord>>,
                                                            <<updatedSubnet>>, touched, FALSE)))
                          ELSE Commit(currentUser, isLoading, currentView,
                                      ReplaceSubnet(subnets, activeSubnet.id, updatedSubnet),
                                      selectedSubnetId, showAddModal, <<>>, FALSE, chatHistory, advisorIsLoading, tasks)
    /\ UNCHANGED <<callVars, isSupabaseConfigured, db, created>>

\* handleUpdateIP after "await StorageService.updateIP(...)"
updateIPDone(i, outcome) ==
    /\ tasks[i].kind = "handleUpdateIP"
    /\ db' = IF outcome = "ok" THEN UpdateRows(db, tasks[i].id, tasks[i].rec[1]) ELSE db
    /\ saved' = <<[role |-> tasks[i].role,
                   touched |-> tasks[i].touched \cup
                               (IF outcome = "ok" THEN TouchedDB(db, tasks[i].rec[1]) ELSE {})]>>
    /\ Commit(currentUser, isLoading, currentView,
              ReplaceSubnet(tasks[i].snap, tasks[i].id, tasks[i].subnet[1]), selectedSubnetId,
              showAddModal, IF tasks[i].mounted THEN <<>> ELSE selectedIP,
              isSaving /\ ~tasks[i].mounted, chatHistory, advisorIsLoading, Remove(tasks, i))
    /\ used' = Failed(outcome)
    /\ UNCHANGED <<callVars, isSupabaseConfigured, created>>

\* subnets.filter(s => s.id !== id)
WithoutSubnet(subs, id) == SelectSeq(subs, LAMBDA s : s.id # id)

\* deleteSubnet up to its await (the trash button of the active subnet,
\* confirmed)
deleteSubnet ==
    /\ MgrMounted /\ isAdmin /\ ~Overlay
    /\ HasActive
    /\ used.ops < MaxOps
    /\ IF isSupabaseConfigured
       THEN /\ Len(tasks) < MaxInFlight
            /\ Commit(currentUser, isLoading, currentView, subnets, selectedSubnetId, showAddModal,
                      selectedIP, isSaving, chatHistory, advisorIsLoading,
                      Append(tasks, Task("deleteSubnet", "SubnetManager", currentUser, subnets,
                                         activeSubnet.id, <<>>, <<>>, {}, FALSE)))
       ELSE Commit(currentUser, isLoading, currentView, WithoutSubnet(subnets, activeSubnet.id),
                   NullId, showAddModal, selectedIP, isSaving, chatHistory, advisorIsLoading, tasks)
    /\ used' = [used EXCEPT !.ops = @ + 1]
    /\ UNCHANGED <<callVars, isSupabaseConfigured, db, created, saved>>

\* deleteSubnet after "await StorageService.deleteSubnet(id)": the id deleted
\* was the selected one when the handler was created
deleteSubnetDone(i, outcome) ==
    /\ tasks[i].kind = "deleteSubnet"
    /\ db' = IF outcome = "ok" THEN DeleteRows(db, tasks[i].id) ELSE db
    /\ Commit(currentUser, isLoading, currentView, WithoutSubnet(tasks[i].snap, tasks[i].id),
              IF tasks[i].mounted THEN NullId ELSE selectedSubnetId, showAddModal, selectedIP,
              isSaving, chatHistory, advisorIsLoading, Remove(tasks, i))
    /\ used' = Failed(outcome)
    /\ UNCHANGED <<callVars, isSupabaseConfigured, created, saved>>

(***************************************************************************)
(* components/AIConsultant.tsx                                             *)
(***************************************************************************)
\* handleSend up to its await; keywords: the message asks for a plan; key: the
\* Send button (disabled while isLoading) or the Enter key of the input
handleSend(keywords, key) ==
    /\ AdvMounted
    /\ key = "button" => ~advisorIsLoading
    /\ used.ops < MaxOps
    /\ Len(tasks) < MaxInFlight
    /\ LET n == Cardinality(UserMessages(chatHistory)) + 1
       IN  Commit(currentUser, isLoading, currentView, subnets, selectedSubnetId, showAddModal,
                  selectedIP, isSaving,
                  Append(chatHistory, [role |-> "user", msg |-> n, suggestion |-> <<>>]), TRUE,
                  Append(tasks, [Task("handleSend", "AIConsultant", currentUser, <<>>, NullId, <<>>, <<>>,
                                      {}, isAdmin /\ keywords) EXCEPT !.msg = n]))
    /\ used' = [used EXCEPT !.ops = @ + 1]
    /\ UNCHANGED <<callVars, isSupabaseConfigured, db, created, saved>>

\* handleSend after its awaits: the answer joins the chat, with the parsed
\* suggestion when a plan was asked for, and isLoading is set to false
handleSendDone(i, reply) ==
    /\ tasks[i].kind = "handleSend"
    /\ Commit(currentUser, isLoading, currentView, subnets, selectedSubnetId, showAddModal,
              selectedIP, isSaving,
              IF tasks[i].mounted
              THEN Append(chatHistory, [role |-> "ai", msg |-> tasks[i].msg,
                                        suggestion |-> IF tasks[i].plan THEN <<reply>> ELSE <<>>])
              ELSE chatHistory,
              advisorIsLoading /\ ~tasks[i].mounted,
              Remove(tasks, i))
    /\ UNCHANGED <<callVars, isSupabaseConfigured, db, created, saved, used>>

(***************************************************************************)
(* The application                                                         *)
(***************************************************************************)
\* the database as an earlier visit of an administrator has left it: one
\* subnet made with the form and one made by the advisor, for the same block
SharedDb ==
    LET lab == NewSubnet("lab", LabCidr.text, <<>>)
        ai == AISubnetSeeded("ai-net", LabCidr.text, [j \in 1..RandPeriod |-> IF j = 1 THEN 801 ELSE 0])
        d1 == InsertIps(InsertSubnet(EmptyDb, lab), DbIds[1], lab)
    IN  InsertIps(InsertSubnet(d1, ai), DbIds[2], ai)

InitialDbs == {EmptyDb, SharedDb}

AppInit ==
    /\ currentUser = NoUser
    /\ currentView = "dashboard"
    /\ isLoading = FALSE
    /\ subnets = <<>>
    /\ selectedSubnetId = NullId
    /\ showAddModal = FALSE
    /\ selectedIP = <<>>
    /\ isSaving = FALSE
    /\ chatHistory = <<>>
    /\ advisorIsLoading = FALSE
    /\ tasks = <<>>
    /\ created = <<>>
    /\ saved = <<>>
    /\ used = [logins |-> 0, ops |-> 0, failures |-> 0]

CallInit ==
    /\ op = "none"
    /\ arg = <<>>
    /\ res = <<>>

Init ==
    /\ CallInit
    /\ AppInit
    /\ isSupabaseConfigured \in BOOLEAN
    /\ db \in (IF isSupabaseConfigured THEN InitialDbs ELSE {EmptyDb})

Next ==
    \/ \E role \in {"admin", "user"}, rnd \in AppRands : handleLogin(role, rnd)
    \/ \E i \in 1..Len(tasks), outcome \in Outcomes, rnd \in AppRands : loadDataDone(i, outcome, rnd)
    \/ onLogout
    \/ \E view \in {"dashboard", "subnets", "advisor"} : setView(view)
    \/ \E s \in AdvisorReplies, rnd \in AppRands : handleAddSubnetFromAI(s, rnd)
    \/ \E i \in 1..Len(tasks), outcome \in Outcomes, rnd \in AppRands : reloadAfterAI(i, outcome, rnd)
    \/ \E id \in {"1", "2"} \cup {DbIds[n] : n \in 1..Len(DbIds)} : selectSubnet(id)
    \/ openAddModal
    \/ cancelAddModal
    \/ \E name \in FormNames, c \in FormCidrs, vlan \in FormVlans : handleCreateSubnet(name, c.text, vlan)
    \/ \E i \in 1..Len(tasks), outcome \in Outcomes : createSubnetInsert(i, outcome)
    \/ \E i \in 1..Len(tasks), outcome \in Outcomes : createSubnetInsertIps(i, outcome)
    \/ \E ip \in ClickIps : onIPClick(ip)
    \/ closeIPModal
    \/ \E status \in StatusChoices : handleUpdateIP(status)
    \/ \E i \in 1..Len(tasks), outcome \in Outcomes : updateIPDone(i, outcome)
    \/ deleteSubnet
    \/ \E i \in 1..Len(tasks), outcome \in Outcomes : deleteSubnetDone(i, outcome)
    \/ \E keywords \in BOOLEAN, key \in {"button", "enter"} : handleSend(keywords, key)
    \/ \E i \in 1..Len(tasks), reply \in AdvisorReplies : handleSendDone(i, reply)

Spec == Init /\ [][Next]_vars

(***************************************************************************)
(* components/IPGrid.tsx: the two sorted displays                          *)
(***************************************************************************)
\* values.sort(cmp) for a comparator that is the difference of two numbers:
\* an element comes after those that compare before it and, the sort being
\* stable, after the equal ones that precede it in the array
SortRank(cmps, i) ==
    1 + Cardinality({j \in DOMAIN cmps :
                        \/ NumSign(cmps[j][i]) < 0
                        \/ NumSign(cmps[j][i]) = 0 /\ j < i})

\* cmps[j][i] is the comparator's result for values[j] and values[i]
SortRanks(cmps) == [i \in DOMAIN cmps |-> SortRank(cmps, i)]

Permuted(values, ranks) == [p \in 1..Len(values) |-> values[CHOOSE i \in 1..Len(values) : ranks[i] = p]]

\* a sort that keeps the order of the array
sortedIPsUnsorted(values) == values

\* IPGrid: (Object.values(records) as IPRecord[]).sort(...)
sortedIPs(values) ==
    Permuted(values, SortRanks([j \in 1..Len(values) |-> [i \in 1..Len(values) |-> sortedIPsCompare(values[j], values[i])]]))

\* SubnetManager list view: (Object.values(filteredRecords) as IPRecord[]).sort(...)
listViewSorted(values) ==
    Permuted(values, SortRanks([j \in 1..Len(values) |-> [i \in 1..Len(values) |-> listViewCompare(values[j], values[i])]]))

\* the records displayed: a block and the last octets of the records shown,
\* in the order in which Object.values lists them
ShownInput(q, n, octets) ==
    [cidr |-> CidrInput(q, n), octets |-> octets,
     values |-> [i \in 1..Len(octets) |->
                    IPRecord(MkIp(<<q[1], q[2], q[3], octets[i]>>), AVAILABLE, Undefined, Undefined, Undefined)]]
ShownOrders == {<<100, 9, 10, 1, 254, 128>>, <<1, 10, 100, 128, 254, 9>>, <<9, 100>>, <<254, 1>>, <<7>>, <<>>}
ShownInputs ==
    {ShownInput(q, 24, o) : q \in {<<10, 0, 0, 0>>, <<192, 168, 1, 77>>}, o \in ShownOrders}
        \cup {ShownInput(<<128, 0, 1, 8>>, 29, o) : o \in {<<14, 13, 12, 11, 10, 9>>, <<9, 10, 11, 12, 13, 14>>, <<10, 9, 14>>}}
        \cup {ShownInput(<<10, 0, 1, 0>>, 30, o) : o \in {<<2, 1>>, <<1, 2>>}}

(***************************************************************************)
(* services/storage.ts: authLogin, and the email handleLogin passes to it  *)
(***************************************************************************)
\* s.startsWith(sub)
StartsWith(s, sub) == Len(s) >= Len(sub) /\ SubSeq(s, 1, Len(sub)) = sub

\* s.includes(sub)
Includes(s, sub) == \E i \in 0..(Len(s) - Len(sub)) : SubSeq(s, i + 1, i + Len(sub)) = sub

AdminText == <<"a", "d", "m", "i", "n">>
AdminEmail == <<"a", "d", "m", "i", "n", "@", "n", "e", "x", "u", "s", ".", "c", "o", "m">>
OperatorEmail == <<"o", "p", "e", "r", "a", "t", "o", "r", "@", "n", "e", "x", "u", "s", ".", "c", "o", "m">>

\* email || (role === 'admin' ? 'admin@nexus.com' : 'operator@nexus.com')
LoginEmail(typed, button) ==
    IF typed # <<>> THEN typed ELSE IF button = "admin" THEN AdminEmail ELSE OperatorEmail

\* a || b: for a text (<<>> when it is null or empty), and for a role ("" when
\* it is null or empty)
OrElse(a, b) == IF a = <<>> THEN b ELSE a
RoleOrElse(a, b) == IF a = "" THEN b ELSE a

\* authLogin: o.signIn and o.signUp say how the two auth requests end
\* ("user", "nouser", "error", "throws"), o.profile is the answer of the
\* profiles query ("row", "none", "throws") with the row's fields; null is <<>>
authLogin(email, configured, o) ==
    LET mockUser == [username |-> email, role |-> IF Includes(email, AdminText) THEN "admin" ELSE "user"]
        local == [user |-> <<mockUser>>, error |-> <<>>]
        withProfile ==
            IF o.profile.answer = "throws" THEN local
            ELSE IF o.profile.answer = "none"
                 THEN [user |-> <<[username |-> email, role |-> mockUser.role]>>, error |-> <<>>]
            ELSE [user |-> <<[username |-> OrElse(o.profile.username, email),
                              role |-> RoleOrElse(o.profile.role, mockUser.role)]>>,
                  error |-> <<>>]
    IN  IF ~configured THEN local
        ELSE IF o.signIn = "throws" THEN local
        ELSE IF o.signIn = "error"
             THEN IF o.signUp \in {"throws", "error"} THEN local
                  ELSE IF o.signUp = "user" THEN withProfile
                  ELSE local
        ELSE IF o.signIn = "user" THEN withProfile
        ELSE local

\* what is typed into the email field
TypedEmails ==
    {<<>>, <<"b", "o", "b", "@", "x", ".", "i", "o">>, <<"s", "y", "s", "a", "d", "m", "i", "n", "@", "x", ".", "i", "o">>, <<"A", "d", "m", "i", "n", "@", "x", ".", "i", "o">>, <<"a", "d", "m", "i", "@", "n", ".", "i", "o">>, <<"a", "d", "m", "i", "n">>, <<"n", "i", "m", "d", "a", "@", "x", ".", "i", "o">>}
AuthAnswers == {"user", "nouser", "error", "throws"}
ProfileAnswers ==
    {[answer |-> "none", username |-> <<>>, role |-> ""], [answer |-> "throws", username |-> <<>>, role |-> ""]}
        \cup {[answer |-> "row", username |-> u, role |-> r] : u \in {<<>>, <<"r", "o", "o", "t">>}, r \in {"", "admin", "user"}}
AuthOutcomes == [signIn : AuthAnswers, signUp : AuthAnswers, profile : ProfileAnswers]

(***************************************************************************)
(* The two persistence backends, request by request                       *)
(***************************************************************************)
\* StorageService.createSubnet when both inserts succeed
createSubnet(d, subnet) == InsertIps(InsertSubnet(d, subnet), DbIds[d.nextId], subnet)

\* POST /api/subnets of the Oracle backend: the SUBNETS row and the IP_RECORDS
\* rows are written with the id of the request body
PostSubnets(d, body) ==
    [d EXCEPT !.subnets = Append(@, [id |-> body.id, name |-> body.name, cidr |-> body.cidr,
                                      gateway |-> body.gateway, vlan |-> body.vlan]),
              !.ip_records = @ \cup
                  {[subnet_id |-> body.id, ip |-> body.records[k].ip, status |-> body.records[k].status,
                    hostname |-> body.records[k].hostname, owner |-> Undefined, description |-> Undefined]
                      : k \in DOMAIN body.records}]

\* the subnets the UI builds and sends
BuiltSubnets ==
    {NewSubnet("lab", c.text, <<>>) : c \in {LabCidr, LabBare}}
        \cup {AISubnetSeeded("ai-net", LabCidr.text, rnd) : rnd \in AppRands}

(***************************************************************************)
(* Dashboard (part_001): what it computes from the list it is given       *)
(***************************************************************************)
\* a / b of two counts: NaN for 0 / 0, otherwise the fraction num / den
Quotient(a, b) == [nan |-> (a = 0 /\ b = 0), num |-> a, den |-> b]

\* Object.values(s.records).filter(r => r.status !== IPStatus.AVAILABLE).length
NotAvailable(s) == Cardinality({k \in DOMAIN s.records : s.records[k].status # AVAILABLE})

\* topSubnets: usage of one subnet, (filter(...).length / keys.length) * 100
usage(s) ==
    LET q == Quotient(NotAvailable(s), Cardinality(DOMAIN s.records))
    IN  [q EXCEPT !.num = @ * 100]

\* stats: the number of records of each status over all subnets
RECURSIVE CountStatus(_, _, _)
CountStatus(subs, i, status) ==
    IF i > Len(subs) THEN 0
    ELSE Cardinality({k \in DOMAIN subs[i].records : subs[i].records[k].status = status})
            + CountStatus(subs, i + 1, status)

stats(subs) == [status \in IPStatus |-> CountStatus(subs, 1, status)]

RECURSIVE SumStats(_, _)
SumStats(data, names) ==
    IF names = {} THEN 0
    ELSE LET name == CHOOSE name \in names : TRUE
         IN  data[name] + SumStats(data, names \ {name})

totalIPs(subs) == SumStats(stats(subs), IPStatus)
usedIPs(subs) == SumStats(stats(subs), IPStatus \ {AVAILABLE})

\* the lists the Dashboard can be given: the demo data, what getAllSubnets
\* reads from the database, also after the form has created a subnet whose
\* block cannot be expanded, and the empty list shown while loading
DashboardInputs ==
    {MockData[rnd] : rnd \in AppRands}
        \cup {MergeRows(d) : d \in InitialDbs}
        \cup {MergeRows(createSubnet(d, NewSubnet("lab", c.text, <<>>))) : d \in InitialDbs, c \in FormCidrs \ {LabWide}}

\* one render of the Dashboard; topSubnets before it is ordered and cut to five
Dashboard(subs) ==
    [topSubnets |-> [i \in 1..Len(subs) |-> [name |-> subs[i].name, usage |-> usage(subs[i])]],
     totalIPs |-> totalIPs(subs),
     usedIPs |-> usedIPs(subs)]

(***************************************************************************)
(* The functions of ipUtils.ts and the comparators, called on their own    *)
(***************************************************************************)
\* one call per behaviour: the functions are pure, a call depends on nothing
\* but its input
Call(f, a, r) ==
    /\ op = "none"
    /\ op' = f
    /\ arg' = a
    /\ res' = r
    /\ UNCHANGED appVars

CallIpToLong == \E a \in IpInputs : Call("ipToLong", a, ipToLong(a.text))

CallLongToIp == \E v \in LongInputs : Call("longToIp", v, longToIp(v))

CallGetIPRange == \E c \in CidrInputs : Call("getIPRange", c, getIPRange(c.text))

CallIsValidCIDR == \E c \in ValidityInputs : Call("isValidCIDR", c, isValidCIDR(c.text))

CallGenerateMockSubnet ==
    \E c \in SeedInputs, rnd \in RandSeqs :
        Call("generateMockSubnet", [cidr |-> c, rnd |-> rnd], generateMockSubnet(c.text, "seed", rnd))

CallGenerateEmptySubnet == \E c \in SeedInputs : Call("generateEmptySubnet", [cidr |-> c], generateEmptySubnet(c.text))

CallSortedIPsCompare ==
    \E a \in CompareInputs, b \in CompareInputs :
        Call("sortedIPsCompare", <<a, b>>,
             sortedIPsCompare(IPRecord(a.text, AVAILABLE, Undefined, Undefined, Undefined),
                              IPRecord(b.text, AVAILABLE, Undefined, Undefined, Undefined)))

CallListViewCompare ==
    \E a \in CompareInputs, b \in CompareInputs :
        Call("listViewCompare", <<a, b>>,
             listViewCompare(IPRecord(a.text, AVAILABLE, Undefined, Undefined, Undefined),
                             IPRecord(b.text, AVAILABLE, Undefined, Undefined, Undefined)))

CallCreateSubnet ==
    \E subnet \in BuiltSubnets, d \in InitialDbs : Call("createSubnet", [subnet |-> subnet, db |-> d], createSubnet(d, subnet))

CallPostSubnets ==
    \E body \in BuiltSubnets, d \in InitialDbs : Call("POST /api/subnets", [subnet |-> body, db |-> d], PostSubnets(d, body))

\* the answers of the two queries of getAllSubnets
QueryOutcomes == {"ok", "subnets failed", "ip_records failed"}

CallGetAllSubnets ==
    \E configured \in BOOLEAN, d \in InitialDbs, outcome \in QueryOutcomes, rnd \in AppRands :
        Call("getAllSubnets", [configured |-> configured, db |-> d, outcome |-> outcome],
             getAllSubnetsIn(configured, d, outcome, rnd))

CallGetAllSubnets_part004 ==
    \E configured \in BOOLEAN, d \in InitialDbs, outcome \in QueryOutcomes, rnd \in AppRands :
        Call("getAllSubnets (part_004)", [configured |-> configured, db |-> d, outcome |-> outcome],
             getAllSubnets_part004(configured, d, outcome, rnd))

\* handleLogin: the email typed, the button pressed, and authLogin's answer
CallAuthLogin ==
    \E typed \in TypedEmails, button \in {"admin", "user"}, configured \in BOOLEAN, o \in AuthOutcomes :
        Call("authLogin",
             [typed |-> typed, button |-> button, email |-> LoginEmail(typed, button),
              configured |-> configured, outcome |-> o],
             authLogin(LoginEmail(typed, button), configured, o))

CallDashboard == \E subs \in DashboardInputs : Call("Dashboard", subs, Dashboard(subs))

CallSortedIPs == \E v \in ShownInputs : Call("sortedIPs", v, sortedIPs(v.values))

CallListViewSorted == \E v \in ShownInputs : Call("listViewSorted", v, listViewSorted(v.values))

NextMath ==
    \/ CallIpToLong
    \/ CallLongToIp
    \/ CallGetIPRange
    \/ CallIsValidCIDR
    \/ CallGenerateMockSubnet
    \/ CallGenerateEmptySubnet
    \/ CallSortedIPsCompare
    \/ CallListViewCompare
    \/ CallCreateSubnet
    \/ CallPostSubnets
    \/ CallSortedIPs
    \/ CallListViewSorted
    \/ CallGetAllSubnets
    \/ CallGetAllSubnets_part004
    \/ CallAuthLogin
    \/ CallDashboard

InitMath ==
    /\ CallInit
    /\ AppInit
    /\ isSupabaseConfigured = FALSE
    /\ db = EmptyDb

SpecMath == InitMath /\ [][NextMath]_vars

(***************************************************************************)
(* Reference notions used by the properties: the usable host addresses of  *)
(* a block a.b.c.d/n with n >= 24, written from the octets.                *)
(***************************************************************************)
ValidQuad(q) == \A i \in 1..4 : q[i] \in 0..255
BlockSize(n) == Pow2(32 - n)
NetworkOctet(q, n) == q[4] - (q[4] % BlockSize(n))
BroadcastOctet(q, n) == NetworkOctet(q, n) + BlockSize(n) - 1
ExpectedHosts(q, n) == [k \in 1..(BlockSize(n) - 2) |-> MkIp(<<q[1], q[2], q[3], NetworkOctet(q, n) + k>>)]
SeqRange(seq) == {seq[i] : i \in 1..Len(seq)}
QuadValue(q) == <<(q[1] * 256) + q[2], (q[3] * 256) + q[4]>>

(***************************************************************************)
(* Properties of the address arithmetic (checked under SpecMath)           *)
(***************************************************************************)

\* C1: for every base address with octets in 0..255 and every prefix length
\* 24..30, getIPRange returns exactly the addresses strictly between the
\* network and the broadcast address, in ascending order.
C1_RangeIsUsableHosts ==
    (op = "getIPRange" /\ arg.hasPrefix /\ arg.prefix \in 24..30 /\ ValidQuad(arg.quad))
        => res = ExpectedHosts(arg.quad, arg.prefix)

C1_Witness ==
    /\ op = "getIPRange"
    /\ arg.hasPrefix /\ arg.prefix = 26
    /\ arg.quad[1] >= 128 /\ arg.quad[4] = 77
    /\ Len(res) = 62
    /\ res[1] = MkIp(<<arg.quad[1], arg.quad[2], arg.quad[3], 65>>)

\* C2: for every prefix length 24..30 the sequence returned by getIPRange has
\* length 2^(32-n) - 2 and contains no address twice.
C2_RangeSize ==
    (op = "getIPRange" /\ arg.hasPrefix /\ arg.prefix \in 24..30 /\ ValidQuad(arg.quad))
        => /\ Len(res) = Pow2(32 - arg.prefix) - 2
           /\ Cardinality(SeqRange(res)) = Len(res)

C2_Witness ==
    /\ op = "getIPRange"
    /\ arg.hasPrefix /\ arg.prefix = 24
    /\ Len(res) = 254

\* C3: ipToLong and longToIp are mutually inverse, on every 32-bit unsigned
\* value and on every canonical dotted quad.
C3_RoundTrip ==
    /\ op = "longToIp" => ipToLong(res) = arg
    /\ (op = "ipToLong" /\ ValidQuad(arg.quad)) => longToIp(res) = arg.text

C3_Witness ==
    /\ op = "longToIp"
    /\ arg = <<49320, 256>>
    /\ res = MkIp(<<192, 168, 1, 0>>)

\* C4: getIPRange returns the empty sequence when the prefix length is
\* absent, below 24, above 32, or 31 or 32, and a non-empty sequence for every
\* prefix length 24..30.
C4_EmptyOutsideRange ==
    op = "getIPRange" =>
        /\ (~arg.hasPrefix \/ arg.prefix < 24 \/ arg.prefix > 32 \/ arg.prefix \in {31, 32}) => res = <<>>
        /\ (arg.hasPrefix /\ arg.prefix \in 24..30) => res # <<>>

C4_Witness ==
    /\ op = "getIPRange"
    /\ ~arg.hasPrefix
    /\ res = <<>>

\* C5: the sort comparator is negative, zero or positive exactly when
\* ipToLong(a) - ipToLong(b) is, for every two valid addresses
C5_CompareIsNumericOrder ==
    op \in {"sortedIPsCompare", "listViewCompare"} =>
        NumSign(res) = NumSign(NumSub(ipToLong(arg[1].text), ipToLong(arg[2].text)))

\* C6 as stated: the address map built for a prefix length 24..32 has size
\* 2^(32-n) - 2, and the map is empty for every other prefix length
C6_MapSizeAsStated ==
    op \in {"generateMockSubnet", "generateEmptySubnet"} =>
        IF arg.cidr.hasPrefix /\ arg.cidr.prefix \in 24..32
        THEN Cardinality(DOMAIN res) = Pow2(32 - arg.cidr.prefix) - 2
        ELSE DOMAIN res = {}

\* C6 amended: the address map built for a prefix length 24..31 has size
\* 2^(32-n) - 2 (its keys being unique), and the map is empty for the prefix
\* length 32 and for every prefix length outside 24..32
C6_MapSize ==
    op \in {"generateMockSubnet", "generateEmptySubnet"} =>
        IF arg.cidr.hasPrefix /\ arg.cidr.prefix \in 24..31
        THEN Cardinality(DOMAIN res) = Pow2(32 - arg.cidr.prefix) - 2
        ELSE DOMAIN res = {}

C6_Witness ==
    /\ op = "generateMockSubnet"
    /\ arg.cidr.hasPrefix /\ arg.cidr.prefix = 32
    /\ DOMAIN res = {}


(***************************************************************************)
(* Properties of the application (checked under Spec, C8 under SpecMath)   *)
(***************************************************************************)
\* the addresses strictly between the network address and the broadcast
\* address of a block, written from its octets
HostsOf(c) ==
    IF c.hasPrefix /\ c.prefix \in 24..30 THEN SeqRange(ExpectedHosts(c.quad, c.prefix)) ELSE {}
UsableHosts == [t \in {c.text : c \in KnownCidrs} |-> HostsOf(CHOOSE c \in KnownCidrs : c.text = t)]

\* C7: in every reachable state of the application, every key k of every
\* subnet's record map holds the record of address k, and k lies strictly
\* between the network address and the broadcast address of that subnet's
\* block.
C7_KeysInsideBlock ==
    \A i \in 1..Len(subnets) :
        /\ DOMAIN subnets[i].records \subseteq UsableHosts[subnets[i].cidr]
        /\ \A k \in DOMAIN subnets[i].records : subnets[i].records[k].ip = k

\* C8: generateEmptySubnet returns a map with exactly one record per address
\* of getIPRange(cidr), each with status Available and without hostname,
\* owner and description.
C8_EmptyFactory ==
    op = "generateEmptySubnet" =>
        /\ res = [k \in SeqRange(getIPRange(arg.cidr.text)) |->
                    IPRecord(k, AVAILABLE, Undefined, Undefined, Undefined)]
        /\ Cardinality(DOMAIN res) = Len(getIPRange(arg.cidr.text))

C8_Witness ==
    /\ op = "generateEmptySubnet"
    /\ arg.cidr.hasPrefix /\ arg.cidr.prefix = 29
    /\ Cardinality(DOMAIN res) = 6
    /\ \A k \in DOMAIN res : res[k].status = AVAILABLE

\* C9: every subnet handed to StorageService.createSubnet, by the New Subnet
\* form or by the advisor's "Create this Subnet", has all its records
\* Available and none of them made by generateMockSubnet.
C9_CreatedUnallocated ==
    \A j \in 1..Len(created) :
        /\ created[j].factory # "generateMockSubnet"
        /\ \A k \in DOMAIN created[j].subnet.records : created[j].subnet.records[k].status = AVAILABLE

\* C10: a save of a session whose role is 'user' writes only records whose
\* status was Available, and leaves them Reserved.
C10_UserOnlyReserves ==
    \A j \in 1..Len(saved) :
        saved[j].role = "user" =>
            \A t \in saved[j].touched : t.before = AVAILABLE /\ t.after = RESERVED

\* the rows of ip_records that do not belong to the subnet id
RowsOfOthers(d, id) == {r \in d.ip_records : r.subnet_id # id}

\* C11: a step in which StorageService.updateIP(subnetId, record) answers
\* changes no row of ip_records that belongs to a subnet other than subnetId,
\* a subnet holding the same address string included.
C11_UpdateStaysInSubnet ==
    [][\A i \in 1..Len(tasks) :
          (tasks[i].kind = "handleUpdateIP" /\ tasks' = Remove(tasks, i))
              => RowsOfOthers(db', tasks[i].id) = RowsOfOthers(db, tasks[i].id)]_vars

(***************************************************************************)
(* Further properties of the address arithmetic (checked under SpecMath)   *)
(***************************************************************************)

\* C12: isValidCIDR returns true exactly for the texts a.b.c.d and a.b.c.d/n
\* whose four octets are numbers in 0..255 and whose n, when present, is a
\* number in 0..32, and false for every other text.
C12_ValidExactly ==
    op = "isValidCIDR" =>
        res = /\ "quad" \in DOMAIN arg
              /\ ValidQuad(arg.quad)
              /\ arg.hasPrefix => arg.prefix \in 0..32

\* C13: in the map returned by generateMockSubnet the keys are the addresses
\* of getIPRange(cidr); a record has a hostname exactly when it is Active, and
\* that hostname is host-<index>.local for the zero-based position of its
\* address in getIPRange(cidr) (last octet k of a /24 gives index k - 1).
C13_MockHostnames ==
    op = "generateMockSubnet" =>
        /\ DOMAIN res = SeqRange(getIPRange(arg.cidr.text))
        /\ \A k \in DOMAIN res : (res[k].hostname # Undefined) <=> (res[k].status = ACTIVE)
        /\ \A i \in 1..Len(getIPRange(arg.cidr.text)) :
              res[getIPRange(arg.cidr.text)[i]].status = ACTIVE =>
                  res[getIPRange(arg.cidr.text)[i]].hostname =
                      <<"h", "o", "s", "t", "-">> \o NumToString(i - 1) \o <<".", "l", "o", "c", "a", "l">>
        /\ (arg.cidr.hasPrefix /\ arg.cidr.prefix = 24) =>
              \A k \in 1..254 :
                  LET r == res[MkIp(<<arg.cidr.quad[1], arg.cidr.quad[2], arg.cidr.quad[3], k>>)]
                  IN  r.status = ACTIVE =>
                          r.hostname = <<"h", "o", "s", "t", "-">> \o NumToString(k - 1) \o <<".", "l", "o", "c", "a", "l">>

C13_Witness ==
    /\ op = "generateMockSubnet"
    /\ arg.cidr.hasPrefix /\ arg.cidr.prefix = 24 /\ arg.cidr.quad[4] = 77
    /\ res[MkIp(<<192, 168, 1, 3>>)].status = ACTIVE
    /\ res[MkIp(<<192, 168, 1, 3>>)].hostname = <<"h", "o", "s", "t", "-", "2", ".", "l", "o", "c", "a", "l">>
    /\ res[MkIp(<<192, 168, 1, 4>>)].status = RESERVED
    /\ res[MkIp(<<192, 168, 1, 4>>)].hostname = Undefined

(***************************************************************************)
(* Further properties of the application (checked under Spec)              *)
(***************************************************************************)
\* a CIDR text that getIPRange does not expand: no prefix length, or one
\* shorter than 24
Unexpandable(c) == ~c.hasPrefix \/ c.prefix < 24
UnexpandableTexts == {c.text : c \in {c \in KnownCidrs : Unexpandable(c)}}

\* C14: pressing Create with a name and a CIDR that passes isValidCIDR but has
\* no prefix length, or one shorter than 24, takes the accepting branch: the
\* subnet handed to StorageService.createSubnet has an empty record map, and
\* the database never holds an address row for such a subnet.
C14_UnexpandableAccepted ==
    /\ [](\A i \in 1..Len(db.subnets) :
              db.subnets[i].cidr \in UnexpandableTexts =>
                  \A r \in db.ip_records : r.subnet_id # db.subnets[i].id)
    /\ [][\A name \in FormNames \ {""}, c \in FormCidrs, vlan \in FormVlans :
              (isValidCIDR(c.text) /\ Unexpandable(c) /\ handleCreateSubnet(name, c.text, vlan))
                  => /\ Len(created') = 1
                     /\ created'[1].via = "form"
                     /\ created'[1].subnet.cidr = c.text
                     /\ DOMAIN created'[1].subnet.records = {}
                     /\ used'.ops = used.ops + 1]_vars

C14_Witness ==
    /\ Len(created) = 1
    /\ created[1].via = "form"
    /\ created[1].subnet.cidr = LabShort.text
    /\ DOMAIN created[1].subnet.records = {}
    /\ \E i \in 1..Len(db.subnets) :
          /\ db.subnets[i].cidr = LabShort.text
          /\ \A r \in db.ip_records : r.subnet_id # db.subnets[i].id
    /\ tasks = <<>>
    /\ ~showAddModal

(***************************************************************************)
(* Properties of the persistence backends (checked under SpecMath)         *)
(***************************************************************************)
\* the rows a request has added to the tables it was given
NewSubnetRows(before, after) == {after.subnets[i] : i \in (Len(before.subnets) + 1)..Len(after.subnets)}
NewIpRows(before, after) == after.ip_records \ before.ip_records

\* C15: in both backends a creation stores the subnet under an id assigned by
\* the persistence layer, never under the provisional id of the caller, and
\* every address row it inserts carries the id of the subnet row it inserted.
C15_ProvisionalIdNotStored ==
    op \in {"createSubnet", "POST /api/subnets"} =>
        /\ \A s \in NewSubnetRows(arg.db, res) : s.id # arg.subnet.id
        /\ \A r \in NewIpRows(arg.db, res) :
              /\ r.subnet_id # arg.subnet.id
              /\ \E s \in NewSubnetRows(arg.db, res) : s.id = r.subnet_id

\* C16: for every dotted quad with octets in 0..255, ipToLong returns
\* a*2^24 + b*2^16 + c*2^8 + d as an unsigned 32-bit value (here: the pair of
\* its half-words, each in 0..65535), never a negative number, also when
\* a >= 128.
C16_UnsignedValue ==
    (op = "ipToLong" /\ ValidQuad(arg.quad)) =>
        /\ res = <<(arg.quad[1] * 256) + arg.quad[2], (arg.quad[3] * 256) + arg.quad[4]>>
        /\ res[1] \in 0..65535 /\ res[2] \in 0..65535
        /\ ~NumLess(res, Num(0))

C16_Witness ==
    /\ op = "ipToLong"
    /\ arg.quad = <<255, 168, 1, 255>>
    /\ res = <<65448, 511>>

\* the subnet of a list that has the given id (the first, should there be two)
SubnetWithId(subs, id) == subs[CHOOSE i \in 1..Len(subs) : subs[i].id = id /\ \A j \in 1..(i - 1) : subs[j].id # id]
IdsOf(subs) == {subs[i].id : i \in 1..Len(subs)}

\* C17: no step removes a key from the record map of a subnet that stays in
\* the list, and the step in which deleteSubnet(id) completes leaves exactly
\* the other subnets of the list, with their records as they were, and
\* changes no row of another subnet in the database.
C17_DeleteOnlyRemovesOwn ==
    [][/\ \A id \in IdsOf(subnets) \cap IdsOf(subnets') :
              DOMAIN SubnetWithId(subnets, id).records \subseteq DOMAIN SubnetWithId(subnets', id).records
       /\ \A i \in 1..Len(tasks) :
              (tasks[i].kind = "deleteSubnet" /\ tasks' = Remove(tasks, i))
                  => /\ subnets' = WithoutSubnet(subnets, tasks[i].id)
                     /\ RowsOfOthers(db', tasks[i].id) = RowsOfOthers(db, tasks[i].id)]_vars

\* the network address of a block written from its octets: the host bits of
\* every octet cleared (a text without prefix length is a single address)
MaskedOctet(o, bits) == o - (o % Pow2(8 - bits))
OctetBits(n, i) == IF n >= 8 * i THEN 8 ELSE IF n <= 8 * (i - 1) THEN 0 ELSE n - (8 * (i - 1))
NetworkQuad(q, n) == [i \in 1..4 |-> MaskedOctet(q[i], OctetBits(n, i))]
NetworkAddress(c) == MkIp(NetworkQuad(c.quad, IF c.hasPrefix THEN c.prefix ELSE 32))
NetworkOfText == [t \in {c.text : c \in KnownCidrs} |-> NetworkAddress(CHOOSE c \in KnownCidrs : c.text = t)]

\* C18: every subnet the application serves (the list handed to the views)
\* or constructs (what the form and the advisor hand to createSubnet) has as
\* gateway the network address of its CIDR.
C18_GatewayIsNetwork ==
    /\ \A i \in 1..Len(subnets) : subnets[i].gateway = NetworkOfText[subnets[i].cidr]
    /\ \A j \in 1..Len(created) : created[j].subnet.gateway = NetworkOfText[created[j].subnet.cidr]

\* C19: a CIDR text typed into the form or suggested by the advisor is
\* expanded by the factory and handed to createSubnet, and a row of it is
\* stored, only if isValidCIDR accepts it.
C19_ValidatedBeforeExpansion ==
    /\ \A j \in 1..Len(created) : isValidCIDR(created[j].subnet.cidr)
    /\ \A i \in 1..Len(db.subnets) : isValidCIDR(db.subnets[i].cidr)

(***************************************************************************)
(* Properties of the displays (checked under SpecMath)                     *)
(***************************************************************************)
\* the addresses of a sequence of records
IpsOf(values) == [i \in 1..Len(values) |-> values[i].ip]

\* C20: for records of one subnet with a prefix length 24..30, the grid and
\* the list view show the records in the order of getIPRange(cidr) restricted
\* to the records shown, which is ascending numeric order and not the order
\* of the address texts.
C20_DisplayOrder ==
    (op \in {"sortedIPs", "listViewSorted"} /\ arg.cidr.prefix \in 24..30) =>
        /\ IpsOf(res) = SelectSeq(getIPRange(arg.cidr.text), LAMBDA ip : ip \in SeqRange(IpsOf(arg.values)))
        /\ \A i \in 1..(Len(res) - 1) : NumSign(NumSub(ipToLong(res[i].ip), ipToLong(res[i + 1].ip))) < 0

C20_Witness ==
    /\ op = "listViewSorted"
    /\ arg.octets = <<1, 10, 100, 128, 254, 9>>
    /\ arg.cidr.quad[1] = 192
    /\ IpsOf(res) = <<MkIp(<<192, 168, 1, 1>>), MkIp(<<192, 168, 1, 9>>), MkIp(<<192, 168, 1, 10>>),
                      MkIp(<<192, 168, 1, 100>>), MkIp(<<192, 168, 1, 128>>), MkIp(<<192, 168, 1, 254>>)>>

(***************************************************************************)
(* Properties of the demo generator's draws (checked under SpecMath)       *)
(***************************************************************************)
\* the status the documentation gives a draw of d thousandths
DocumentedStatus(d) ==
    CHOOSE s \in IPStatus :
        \/ s = ACTIVE /\ d > 800
        \/ s = RESERVED /\ 700 < d /\ d <= 800
        \/ s = DHCP /\ 650 < d /\ d <= 700
        \/ s = AVAILABLE /\ d <= 650

DrawnAsDocumented(ips, rnd, records) ==
    \A i \in 1..Len(ips) :
        /\ records[ips[i]].status = DocumentedStatus(rnd[((i - 1) % Len(rnd)) + 1])
        /\ records[ips[i]].status # OFFLINE

\* C21: generateMockSubnet gives the address whose draw is r the status
\* Active when r > 0.8, Reserved when 0.7 < r <= 0.8, DHCP when
\* 0.65 < r <= 0.7 and Available otherwise; the four cases are disjoint and
\* cover [0, 1) with the widths 20%, 10%, 5% and 65%, and no record is Offline.
C21_StatusThresholds ==
    /\ op = "generateMockSubnet" => DrawnAsDocumented(getIPRange(arg.cidr.text), arg.rnd, res)
    /\ \A d \in 0..999 :
          Cardinality({s \in IPStatus : \/ s = ACTIVE /\ d > 800
                                        \/ s = RESERVED /\ 700 < d /\ d <= 800
                                        \/ s = DHCP /\ 650 < d /\ d <= 700
                                        \/ s = AVAILABLE /\ d <= 650}) = 1
    /\ <<1000 - ActiveAbove, ActiveAbove - ReservedAbove, ReservedAbove - DhcpAbove, DhcpAbove>>
          = <<200, 100, 50, 650>>

C21_Witness ==
    /\ op = "generateMockSubnet"
    /\ arg.cidr = CidrInput(<<10, 0, 1, 0>>, 29)
    /\ arg.rnd = <<800, 700>>
    /\ res[MkIp(<<10, 0, 1, 1>>)].status = RESERVED
    /\ res[MkIp(<<10, 0, 1, 2>>)].status = DHCP
    /\ res[MkIp(<<10, 0, 1, 5>>)].status = RESERVED

(***************************************************************************)
(* Properties of the application's reconciliation (checked under Spec)     *)
(***************************************************************************)
\* the row of the database and the record of the list for one address of one
\* subnet say the same
RecordAgrees(subs, d, id, ip) ==
    \A i \in 1..Len(subs) :
        (subs[i].id = id /\ ip \in DOMAIN subs[i].records) =>
            \E r \in d.ip_records :
                /\ r.subnet_id = id /\ r.ip = ip
                /\ IPRecord(r.ip, r.status, r.hostname, r.owner, r.description) = subs[i].records[ip]

DbIdsOf(d) == {d.subnets[i].id : i \in 1..Len(d.subnets)}

\* C22: when a save (handleUpdateIP) or a deletion (deleteSubnet) of
\* something the database holds has completed and no handler is pending, the
\* list of the UI agrees with the database about it, also when the request
\* failed: the record saved reads the same in both, and the subnet deleted is
\* in both or in neither.
C22_LocalAgreesWithBackend ==
    [][\A i \in 1..Len(tasks) :
          (isSupabaseConfigured /\ tasks' = Remove(tasks, i) /\ tasks' = <<>>) =>
              /\ (tasks[i].kind = "handleUpdateIP"
                    /\ \E r \in db.ip_records : r.subnet_id = tasks[i].id /\ r.ip = tasks[i].rec[1].ip)
                     => RecordAgrees(subnets', db', tasks[i].id, tasks[i].rec[1].ip)
              /\ (tasks[i].kind = "deleteSubnet" /\ tasks[i].id \in DbIdsOf(db) /\ tasks[i].mounted)
                     => (tasks[i].id \in IdsOf(subnets') <=> tasks[i].id \in DbIdsOf(db'))]_vars

(***************************************************************************)
(* Progress: every request is answered, so a handler suspended at an       *)
(* await resumes; nothing obliges the user to act.                         *)
(***************************************************************************)
AwaitResumes ==
    \E i \in 1..Len(tasks), outcome \in Outcomes, rnd \in AppRands, reply \in AdvisorReplies :
        \/ loadDataDone(i, outcome, rnd)
        \/ reloadAfterAI(i, outcome, rnd)
        \/ createSubnetInsert(i, outcome)
        \/ createSubnetInsertIps(i, outcome)
        \/ updateIPDone(i, outcome)
        \/ deleteSubnetDone(i, outcome)
        \/ handleSendDone(i, reply)

SpecLive == Init /\ [][Next]_vars /\ WF_vars(AwaitResumes)

\* the ids the database assigns to the subnets inserted after SharedDb's
FreshIds == {DbIds[n] : n \in 3..4}

\* handleCreateSubnet has returned and the row it inserted has this id
FormCreated(id) ==
    /\ isSupabaseConfigured
    /\ created # <<>> /\ created[1].via = "form"
    /\ \A i \in 1..Len(tasks) : tasks[i].kind # "handleCreateSubnet"
    /\ \E j \in 1..Len(db.subnets) :
          /\ db.subnets[j].id = id
          /\ db.subnets[j].name = created[1].subnet.name
          /\ db.subnets[j].cidr = created[1].subnet.cidr

\* C23: once the administrator's creation through the form has inserted its
\* subnet and handleCreateSubnet has returned, the subnet eventually appears
\* in the list the application displays, unless the session ends first.
C23_CreatedEventuallyShown ==
    \A id \in FreshIds : FormCreated(id) ~> (id \in IdsOf(subnets) \/ currentUser = NoUser)

(***************************************************************************)
(* Properties of the storage service's failure paths (checked under        *)
(* SpecMath)                                                               *)
(***************************************************************************)
\* a list that starts with the demo subnet '1' of 192.168.1.0/24
IsDemoData(subs) ==
    /\ Len(subs) > 0
    /\ subs[1].id = "1"
    /\ subs[1].cidr = OfficeCidr.text
    /\ DOMAIN subs[1].records = SeqRange(ExpectedHosts(OfficeCidr.quad, 24))

\* C24: getAllSubnets returns the demo data, and neither an error nor an
\* empty list, when the backend is not configured and when the query of the
\* subnets or the query of the address records fails.
C24_FallsBackToDemoData ==
    (op \in {"getAllSubnets", "getAllSubnets (part_004)"} /\ (~arg.configured \/ arg.outcome # "ok"))
        => IsDemoData(res)

\* the text holds the letters a, d, m, i, n in a row
ContainsAdmin(e) ==
    \E i \in 1..(Len(e) - 4) :
        e[i] = "a" /\ e[i + 1] = "d" /\ e[i + 2] = "m" /\ e[i + 3] = "i" /\ e[i + 4] = "n"

\* the backend has answered with a profile that names a role
ProfileRoleSupplied(a) ==
    /\ a.configured
    /\ a.outcome.signIn = "user" \/ (a.outcome.signIn = "error" /\ a.outcome.signUp = "user")
    /\ a.outcome.profile.answer = "row"
    /\ a.outcome.profile.role # ""

\* C25: authLogin answers with a user and no error whatever the backend does;
\* when the backend supplies no profile role, the role is 'admin' exactly when
\* the email contains 'admin' and 'user' otherwise, and when an email was
\* typed it is that email, whichever login button was pressed.
C25_LoginAlwaysSucceeds ==
    op = "authLogin" =>
        /\ res.user # <<>>
        /\ res.error = <<>>
        /\ arg.typed # <<>> => arg.email = arg.typed
        /\ ~ProfileRoleSupplied(arg) =>
              res.user[1].role = (IF ContainsAdmin(arg.email) THEN "admin" ELSE "user")

C25_Witness ==
    /\ op = "authLogin"
    /\ arg.typed = <<"s", "y", "s", "a", "d", "m", "i", "n", "@", "x", ".", "i", "o">>
    /\ arg.button = "user"
    /\ arg.configured /\ arg.outcome.signIn = "error" /\ arg.outcome.signUp = "error"
    /\ res.user[1].role = "admin"

(***************************************************************************)
(* Further properties of the application (checked under Spec)              *)
(***************************************************************************)
RowsOf(d, id) == {r \in d.ip_records : r.subnet_id = id}

\* C26: when StorageService.createSubnet has finished, the subnet row it
\* inserted is either gone or has a row in ip_records for every record of the
\* map it was given: a failure of the second insert leaves no subnet row.
C26_CreateAllOrNothing ==
    [][\A i \in 1..Len(tasks) :
          (/\ tasks[i].kind \in {"handleCreateSubnet", "handleAddSubnetFromAI"}
           /\ tasks[i].pc = 2
           /\ \/ tasks' = Remove(tasks, i)
              \/ Len(tasks') = Len(tasks) /\ tasks'[i].pc = 3)
              => (tasks[i].id \in DbIdsOf(db')
                    => Cardinality(RowsOf(db', tasks[i].id)) = Cardinality(DOMAIN tasks[i].subnet[1].records))]_vars

\* what a handler started in a session of role 'user' can be
UserKinds == {"loadData", "handleUpdateIP", "handleSend"}

\* the handler that takes a step
Steps(i) ==
    \/ tasks' = Remove(tasks, i)
    \/ Len(tasks') = Len(tasks) /\ tasks'[i].pc # tasks[i].pc

\* C27: a session of role 'user' cannot create or delete a subnet.  While the
\* role is 'user' the New Subnet form is closed and no "Create this Subnet"
\* button is shown, and such a button always belongs to a suggestion with a
\* non-empty cidr and to an administrator; a handler started by a user is a
\* load, a save or a chat message that asks for no plan; the set of subnets
\* in the database changes only by a handler an administrator started; and a
\* step of a user changes the subnets of the list only by loading it (a save
\* puts back the subnets its handler started from).
C27_UserNeverCreatesOrDeletes ==
    /\ [](\A s \in Offered(chatHistory) : s.cidr # <<>> /\ isAdmin)
    /\ [](currentUser = "user" =>
            /\ ~showAddModal
            /\ \A k \in 1..Len(chatHistory) : chatHistory[k].suggestion = <<>>)
    /\ [](\A i \in 1..Len(tasks) : tasks[i].role = "user" => tasks[i].kind \in UserKinds /\ ~tasks[i].plan)
    /\ [][/\ currentUser = "user" => created' = created
          /\ DbIdsOf(db') # DbIdsOf(db) =>
                \E i \in 1..Len(tasks) : tasks[i].role = "admin" /\ tasks[i].kind \notin UserKinds /\ Steps(i)
          /\ (currentUser = "user" /\ tasks = <<>> /\ tasks' = <<>>) => IdsOf(subnets') = IdsOf(subnets)
          /\ \A i \in 1..Len(tasks) :
                (tasks[i].role = "user" /\ tasks[i].kind = "handleUpdateIP" /\ Steps(i))
                    => IdsOf(subnets') = IdsOf(tasks[i].snap)]_vars

C27_Witness ==
    /\ currentUser = "user"
    /\ isSupabaseConfigured
    /\ currentView = "advisor"
    /\ saved # <<>> /\ saved[1].role = "user"
    /\ used.ops = 2
    /\ tasks = <<>>
    /\ Len(subnets) = 2

\* the requests of the chat now shown that have not been answered
Outstanding == {i \in 1..Len(tasks) : tasks[i].kind = "handleSend" /\ tasks[i].mounted}

\* C28: in the advisor chat at most one request is outstanding, isLoading is
\* true exactly while one is, and the history alternates: the messages at odd
\* positions are the user's and each is followed by the reply to it; for
\* sends by the Send button and by the Enter key alike.
C28_OneRequestAtATime ==
    AdvMounted =>
        /\ Cardinality(Outstanding) <= 1
        /\ advisorIsLoading <=> Outstanding # {}
        /\ \A k \in 1..Len(chatHistory) :
              IF k % 2 = 1 THEN chatHistory[k].role = "user"
              ELSE chatHistory[k].role = "ai" /\ chatHistory[k].msg = chatHistory[k - 1].msg

(***************************************************************************)
(* Properties of the Dashboard (checked under SpecMath)                    *)
(***************************************************************************)
RECURSIVE SumSizes(_, _)
SumSizes(subs, i) == IF i > Len(subs) THEN 0 ELSE Cardinality(DOMAIN subs[i].records) + SumSizes(subs, i + 1)

\* C29: for every list the Dashboard can be given, a list with a subnet
\* whose record map is empty included, the usage of every subnet is a number
\* between 0 and 100, usedIPs <= totalIPs, and totalIPs is the sum of the
\* sizes of the record maps.
C29_UtilizationDefined ==
    op = "Dashboard" =>
        /\ \A i \in 1..Len(res.topSubnets) :
              /\ ~res.topSubnets[i].usage.nan
              /\ res.topSubnets[i].usage.den > 0
              /\ 0 <= res.topSubnets[i].usage.num
              /\ res.topSubnets[i].usage.num <= 100 * res.topSubnets[i].usage.den
        /\ res.usedIPs <= res.totalIPs
        /\ res.totalIPs = SumSizes(arg, 1)

(***************************************************************************)
(* Properties of the subnet manager's selection (checked under Spec)       *)
(***************************************************************************)
\* C30: whenever the subnet manager is shown and the list is not empty, the
\* selected subnet id, once the synchronising effect has run, is the id of a
\* subnet of the list: it is neither empty nor the id of a deleted subnet.
C30_SelectionInList ==
    (MgrMounted /\ Len(subnets) > 0) =>
        /\ selectedSubnetId # NullId
        /\ \E i \in 1..Len(subnets) : subnets[i].id = selectedSubnetId

C30_Witness ==
    /\ MgrMounted
    /\ isSupabaseConfigured
    /\ tasks = <<>>
    /\ DbIdsOf(db) = {"s2"}
    /\ IdsOf(subnets) = {"s2"}
    /\ selectedSubnetId = "s2"

====
